---- MODULE Spec2Model ----
(***************************************************************************)
(* State-machine model of two scripts of the repository:                   *)
(*                                                                         *)
(*   scripts/land_use_squasher.py   squash_land_use                        *)
(*   scripts/inca_api_download.py   download_inca_data                     *)
(*                                                                         *)
(* Coordinates are integers in units of one raster pixel.  The raster's    *)
(* affine transform is north-up with its top-left corner at (0, RasterH),  *)
(* and cell_size is even, so every window computed by from_bounds has      *)
(* integral offsets and lengths and no rounding policy of the raster       *)
(* library is involved.  A window is clipped to the raster's extent when   *)
(* it is read (a window that lies outside reads no pixel).                 *)
(*                                                                         *)
(* Percentages are held as reduced fractions <<num, den>>: the value the   *)
(* float expression (count / total) * 100 denotes before rounding.  NaN is *)
(* the pair <<0, 0>>.                                                      *)
(***************************************************************************)
EXTENDS Integers, Sequences, FiniteSets, TLC

VARIABLES
    \* ---- squash_land_use: inputs
    x,              \* nc_in.variables['x'][:]   cell centres along x
    y,              \* nc_in.variables['y'][:]   cell centres along y
    raster,         \* band 1 of the TIFF, raster[row][col], row 1 on top
    src_nodata,     \* src.nodata (None or a pixel value)
    all_unique,     \* the categories to materialise
    \* ---- squash_land_use: locals
    nodata,         \* the value discarded from every window
    cat_arrays,     \* cat -> [<<iy, ix>> -> percentage or NaN]
    iy, ix,         \* position of the two for loops (1-based)
    ci,             \* position of "for cat in all_unique" (1-based)
    percentages,    \* dict of the cell being processed: value -> percentage
    total,          \* counts.sum() of the cell being processed
    pc,             \* "start", "cell", "assign", "output", "done"
    out_nc,         \* the cat_<c> variables written to out_nc_path
    written,        \* history: the slots <<cat, iy, ix>> assigned, in order
    \* ---- squash_land_use called a second time on the same grid and raster
    run,            \* 1 or 2: which call is running
    first_out,      \* what the first call wrote
    removed,        \* the category left out of all_unique in the second call
    \* ---- squash_land_use with the cells shared out among workers
    pending,        \* the cells no worker has taken yet
    taken,          \* history: the cells in the order they were taken
    worker,         \* w -> [cell, percentages, ci] of the cell w is processing
    \* ---- download_inca_data
    start_date,     \* datetimes are counted in half days
    end_date,
    current,
    requests_this_hour,
    status,         \* response.status_code of the request in flight
    files,          \* names of the files written to output_folder
    dpc,            \* "loop", "get", "respond", "returned"
    sent,           \* history: requests of the current hour, the initial
                    \* requests_this_hour included
    n429,           \* history: number of 429 responses so far
    log             \* history: <<current, status>> of every response

sqVars == <<x, y, raster, src_nodata, all_unique, nodata, cat_arrays, iy, ix, ci,
            percentages, total, pc, out_nc, written>>
pairVars == <<run, first_out, removed>>
parVars == <<pending, taken, worker>>
dlVars == <<start_date, end_date, current, requests_this_hour, status, files, dpc,
            sent, n429, log>>
vars == <<sqVars, pairVars, parVars, dlVars>>

-----------------------------------------------------------------------------
(* Bounds of the model *)

MaxAxisLen == 3     \* longest x or y axis
MaxCells == 4       \* most cells of a grid
MaxParAxisLen == 2  \* the same two, for a grid that is shared out among workers
MaxParCells == 4
MaxDate == 6        \* latest end_date, in half days
Max429 == 2         \* most 429 responses of the server in one run

(* Inputs *)

None == -1          \* Python's None, for src.nodata
DefaultNodata == 15

cell_size == 2
RasterShape == <<2, 2>>     \* <<height, width>> in pixels
RasterH == RasterShape[1]
RasterW == RasterShape[2]

PixelValues == {1, 2, DefaultNodata}
XCentres == {1, 2}
YCentres == {1, 3}
CategorySets == {<<1, 2>>, <<1, 3>>, <<>>}
NodataChoices == {None, 2}

AxisSeqs(S) == UNION {[1..n -> S] : n \in 0..MaxAxisLen}
Rasters == [1..RasterH -> [1..RasterW -> PixelValues]]

-----------------------------------------------------------------------------
(* Arithmetic on fractions *)

RECURSIVE GCD(_, _)
GCD(a, b) == IF b = 0 THEN a ELSE GCD(b, a % b)

NaN == <<0, 0>>
Frac(a, b) == LET g == GCD(a, b) IN <<a \div g, b \div g>>
Times100(q) == Frac(q[1] * 100, q[2])
Zero == <<0, 1>>                  \* the literal 0.0
Hundred == <<100, 1>>
IsNaN(q) == q[2] = 0
RatLeq(p, q) == p[1] * q[2] <= q[1] * p[2]
RatAdd(p, q) == Frac(p[1] * q[2] + q[1] * p[2], p[2] * q[2])

RECURSIVE RatSum(_, _)
RatSum(f, S) ==
    IF S = {} THEN Zero
    ELSE LET v == CHOOSE v \in S : TRUE IN RatAdd(f[v], RatSum(f, S \ {v}))

RECURSIVE IntSum(_, _)
IntSum(f, S) ==
    IF S = {} THEN 0
    ELSE LET v == CHOOSE v \in S : TRUE IN f[v] + IntSum(f, S \ {v})

Max(a, b) == IF a >= b THEN a ELSE b
Min(a, b) == IF a <= b THEN a ELSE b

-----------------------------------------------------------------------------
(* squash_land_use: the per-cell computation *)

\* rasterio.windows.from_bounds under the north-up unit transform
from_bounds(left, bottom, right, top) ==
    [col_off |-> left, row_off |-> RasterH - top,
     width |-> right - left, height |-> top - bottom]

\* src.read(1, window=window): the pixels of the window that lie inside the
\* raster, flattened row by row
read(rast, window) ==
    LET r0 == Max(window.row_off, 0)
        r1 == Min(window.row_off + window.height, RasterH)
        c0 == Max(window.col_off, 0)
        c1 == Min(window.col_off + window.width, RasterW)
        nr == Max(r1 - r0, 0)
        nc == Max(c1 - c0, 0)
    IN  [k \in 1..(nr * nc) |->
            rast[r0 + 1 + ((k - 1) \div nc)][c0 + 1 + ((k - 1) % nc)]]

\* lines 45-52
WindowData(rast, xs, ys, jy, jx) ==
    LET x_bounds == <<xs[jx] - cell_size \div 2, xs[jx] + cell_size \div 2>>
        y_bounds == <<ys[jy] - cell_size \div 2, ys[jy] + cell_size \div 2>>
    IN  read(rast, from_bounds(x_bounds[1], y_bounds[1], x_bounds[2], y_bounds[2]))

\* faulty variants of line 53: nodata is not discarded; only the pixels of
\* the categories of all_unique are kept
ValidKeepAll(data, nd) == data
ValidTracked(data, nd) ==
    SelectSeq(data, LAMBDA v : v # nd /\ \E k \in 1..Len(all_unique) : all_unique[k] = v)

\* line 53: data[data != nodata]
Valid(data, nd) == SelectSeq(data, LAMBDA v : v # nd)

\* line 56: np.unique(data, return_counts=True)
Unique(data) == {data[k] : k \in 1..Len(data)}
Counts(data) == [v \in Unique(data) |-> Cardinality({k \in 1..Len(data) : data[k] = v})]

\* faulty variant of line 57: counts.size for counts.sum()
TotalSize(data) == Cardinality(Unique(data))

\* line 57
Total(data) == LET counts == Counts(data) IN IntSum(counts, DOMAIN counts)

\* faulty variant of line 58: total / count for count / total
PercentagesInverted(data) ==
    LET counts == Counts(data)
        tot == Total(data)
    IN  [v \in Unique(data) |-> Times100(Frac(tot, counts[v]))]

\* line 58
Percentages(data) ==
    LET counts == Counts(data)
        tot == Total(data)
    IN  [v \in Unique(data) |-> Times100(Frac(counts[v], tot))]

\* faulty variant of line 60: percentages.get(cat) without the default
GetOrNaN(d, cat) == IF cat \in DOMAIN d THEN d[cat] ELSE NaN

\* line 60: percentages.get(cat, 0.0)
Get(d, cat) == IF cat \in DOMAIN d THEN d[cat] ELSE Zero

\* faulty variant of line 60: cat_arrays[cat][iy] = ..., the whole row
StoreRow(arrays, cat, jy, jx, val) ==
    [arrays EXCEPT ![cat] = [cell \in DOMAIN arrays[cat] |->
                                IF cell[1] = jy THEN val ELSE arrays[cat][cell]]]

\* line 60: cat_arrays[cat][iy, ix] = ...
Store(arrays, cat, jy, jx, val) == [arrays EXCEPT ![cat][<<jy, jx>>] = val]

Cats(au) == {au[k] : k \in 1..Len(au)}
Cells(xs, ys) == (1..Len(ys)) \X (1..Len(xs))

\* faulty variant of line 40: np.zeros(out_shape)
FreshArraysZero(au, xs, ys) == [c \in Cats(au) |-> [cell \in Cells(xs, ys) |-> Zero]]

\* line 40: np.full(out_shape, np.nan)
FreshArrays(au, xs, ys) == [c \in Cats(au) |-> [cell \in Cells(xs, ys) |-> NaN]]

-----------------------------------------------------------------------------
(* squash_land_use: control *)

\* the (iy, ix) that follows (jy, jx) in the nested range loops, or the end
AfterCell(jy, jx) ==
    IF jx < Len(x) THEN [pc |-> "cell", iy |-> jy, ix |-> jx + 1]
    ELSE IF jy < Len(y) THEN [pc |-> "cell", iy |-> jy + 1, ix |-> 1]
    ELSE [pc |-> "output", iy |-> jy, ix |-> jx]

\* an axis is monotonic when it is strictly ascending or strictly descending
Ascending(s) == \A k \in 1..(Len(s) - 1) : s[k] < s[k + 1]
Descending(s) == \A k \in 1..(Len(s) - 1) : s[k] > s[k + 1]
BadAxis(s) == Len(s) = 0 \/ ~(Ascending(s) \/ Descending(s))
InvalidGrid == BadAxis(x) \/ BadAxis(y)

\* variant of the loop entry that rejects an empty or non-monotonic axis
FirstCellChecked ==
    IF InvalidGrid THEN [pc |-> "InvalidGridError", iy |-> 0, ix |-> 0]
    ELSE [pc |-> "cell", iy |-> 1, ix |-> 1]

\* lines 43-44: the loops are entered when both ranges are non-empty
FirstCell ==
    IF Len(y) > 0 /\ Len(x) > 0 THEN [pc |-> "cell", iy |-> 1, ix |-> 1]
    ELSE [pc |-> "output", iy |-> 0, ix |-> 0]

\* the locals of squash_land_use when it is called
SquashEntry ==
    /\ nodata = None
    /\ cat_arrays = <<>>
    /\ iy = 0 /\ ix = 0 /\ ci = 0
    /\ percentages = <<>>
    /\ total = 0
    /\ pc = "start"
    /\ out_nc = <<>>
    /\ written = <<>>

PairIdle == run = 1 /\ first_out = <<>> /\ removed = None
ParIdle == pending = {} /\ taken = <<>> /\ worker = <<>>
DownloadIdle ==
    /\ start_date = 0 /\ end_date = 0 /\ current = 0 /\ requests_this_hour = 0
    /\ status = 0 /\ files = {} /\ dpc = "idle" /\ sent = 0 /\ n429 = 0
    /\ log = <<>>

InitSquash ==
    /\ x \in AxisSeqs(XCentres)
    /\ y \in AxisSeqs(YCentres)
    /\ Len(x) * Len(y) <= MaxCells
    /\ raster \in Rasters
    /\ src_nodata \in NodataChoices
    /\ all_unique \in CategorySets
    /\ SquashEntry
    /\ PairIdle /\ ParIdle /\ DownloadIdle

\* lines 30-43: read the axes, fix nodata, allocate the arrays, enter the loops
Open ==
    /\ pc = "start"
    /\ nodata' = IF src_nodata # None THEN src_nodata ELSE DefaultNodata
    /\ cat_arrays' = FreshArrays(all_unique, x, y)
    /\ pc' = FirstCell.pc /\ iy' = FirstCell.iy /\ ix' = FirstCell.ix
    /\ UNCHANGED <<x, y, raster, src_nodata, all_unique, ci, percentages, total,
                   out_nc, written>>
    /\ UNCHANGED <<pairVars, parVars, dlVars>>

\* lines 45-55: the window holds no valid pixel: continue
SkipCell ==
    /\ pc = "cell"
    /\ Len(Valid(WindowData(raster, x, y, iy, ix), nodata)) = 0
    /\ pc' = AfterCell(iy, ix).pc
    /\ iy' = AfterCell(iy, ix).iy
    /\ ix' = AfterCell(iy, ix).ix
    /\ UNCHANGED <<x, y, raster, src_nodata, all_unique, nodata, cat_arrays, ci,
                   percentages, total, out_nc, written>>
    /\ UNCHANGED <<pairVars, parVars, dlVars>>

\* lines 45-59: count the valid pixels of the window
CountCell ==
    /\ pc = "cell"
    /\ LET data == Valid(WindowData(raster, x, y, iy, ix), nodata) IN
         /\ Len(data) # 0
         /\ total' = Total(data)
         /\ percentages' = Percentages(data)
    /\ IF Len(all_unique) > 0
         THEN pc' = "assign" /\ ci' = 1 /\ UNCHANGED <<iy, ix>>
         ELSE /\ pc' = AfterCell(iy, ix).pc
              /\ iy' = AfterCell(iy, ix).iy
              /\ ix' = AfterCell(iy, ix).ix
              /\ UNCHANGED ci
    /\ UNCHANGED <<x, y, raster, src_nodata, all_unique, nodata, cat_arrays,
                   out_nc, written>>
    /\ UNCHANGED <<pairVars, parVars, dlVars>>

\* line 60, one iteration of "for cat in all_unique"
Assign ==
    /\ pc = "assign"
    /\ LET cat == all_unique[ci] IN
         /\ cat_arrays' = Store(cat_arrays, cat, iy, ix, Get(percentages, cat))
         /\ written' = Append(written, <<cat, iy, ix>>)
    /\ IF ci < Len(all_unique)
         THEN ci' = ci + 1 /\ UNCHANGED <<pc, iy, ix>>
         ELSE /\ pc' = AfterCell(iy, ix).pc
              /\ iy' = AfterCell(iy, ix).iy
              /\ ix' = AfterCell(iy, ix).ix
              /\ UNCHANGED ci
    /\ UNCHANGED <<x, y, raster, src_nodata, all_unique, nodata, percentages,
                   total, out_nc>>
    /\ UNCHANGED <<pairVars, parVars, dlVars>>

\* lines 62-118: write one variable per category
WriteOutput ==
    /\ pc = "output"
    /\ out_nc' = cat_arrays
    /\ pc' = "done"
    /\ UNCHANGED <<x, y, raster, src_nodata, all_unique, nodata, cat_arrays, iy, ix,
                   ci, percentages, total, written>>
    /\ UNCHANGED <<pairVars, parVars, dlVars>>

Next == Open \/ SkipCell \/ CountCell \/ Assign \/ WriteOutput

Init == InitSquash

Spec == Init /\ [][Next]_vars

-----------------------------------------------------------------------------
(* squash_land_use called twice on the same grid and raster, the second     *)
(* time with one category taken out of all_unique                           *)

OmitSets == {<<1, 2>>}
Without(au, c) == SelectSeq(au, LAMBDA v : v # c)

InitOmit ==
    /\ x \in AxisSeqs(XCentres)
    /\ y \in AxisSeqs(YCentres)
    /\ Len(x) * Len(y) <= MaxCells
    /\ raster \in Rasters
    /\ src_nodata = None
    /\ all_unique \in OmitSets
    /\ SquashEntry
    /\ PairIdle /\ ParIdle /\ DownloadIdle

\* the caller keeps the first output and calls again without category c
SecondCall ==
    /\ pc = "done" /\ run = 1
    /\ \E c \in Cats(all_unique) :
          /\ removed' = c
          /\ all_unique' = Without(all_unique, c)
    /\ first_out' = out_nc
    /\ run' = 2
    /\ nodata' = None
    /\ cat_arrays' = <<>>
    /\ iy' = 0 /\ ix' = 0 /\ ci' = 0
    /\ percentages' = <<>>
    /\ total' = 0
    /\ pc' = "start"
    /\ out_nc' = <<>>
    /\ written' = <<>>
    /\ UNCHANGED <<x, y, raster, src_nodata, parVars, dlVars>>

NextOmit == Next \/ SecondCall

SpecOmit == InitOmit /\ [][NextOmit]_vars

-----------------------------------------------------------------------------
(* The loop body of squash_land_use as a function of the arrays, and the    *)
(* sequential loops as its iteration over the cells row by row              *)

\* lines 59-60: for cat in all_unique, from position k on
RECURSIVE AssignFrom(_, _, _, _, _)
AssignFrom(arrays, pct, jy, jx, k) ==
    IF k > Len(all_unique) THEN arrays
    ELSE AssignFrom(Store(arrays, all_unique[k], jy, jx, Get(pct, all_unique[k])),
                    pct, jy, jx, k + 1)

\* lines 45-60: one iteration of the inner loop
CellBody(arrays, jy, jx) ==
    LET data == Valid(WindowData(raster, x, y, jy, jx), nodata) IN
    IF Len(data) = 0 THEN arrays
    ELSE AssignFrom(arrays, Percentages(data), jy, jx, 1)

\* lines 43-44: the cells from the k-th on, row by row
RECURSIVE LoopFrom(_, _)
LoopFrom(arrays, k) ==
    IF k > Len(y) * Len(x) THEN arrays
    ELSE LoopFrom(CellBody(arrays, ((k - 1) \div Len(x)) + 1, ((k - 1) % Len(x)) + 1),
                  k + 1)

SequentialResult == LoopFrom(FreshArrays(all_unique, x, y), 1)

-----------------------------------------------------------------------------
(* squash_land_use with the cells of the grid shared out among workers:     *)
(* a worker takes any cell no worker has taken, reads its window, and       *)
(* assigns its slots category by category; the workers interleave freely    *)

Workers == {1, 2}
Idle == [cell |-> <<>>, percentages |-> <<>>, ci |-> 0]

InitAnyOrder ==
    /\ x \in AxisSeqs(XCentres)
    /\ y \in AxisSeqs(YCentres)
    /\ Len(x) <= MaxParAxisLen /\ Len(y) <= MaxParAxisLen
    /\ Len(x) * Len(y) <= MaxParCells
    /\ raster \in Rasters
    /\ src_nodata = None
    /\ all_unique = <<1, 2>>
    /\ SquashEntry
    /\ PairIdle /\ ParIdle /\ DownloadIdle

\* lines 30-40, then every cell of the grid is up for taking
OpenShared ==
    /\ pc = "start"
    /\ nodata' = IF src_nodata # None THEN src_nodata ELSE DefaultNodata
    /\ cat_arrays' = FreshArrays(all_unique, x, y)
    /\ pending' = Cells(x, y)
    /\ taken' = <<>>
    /\ worker' = [w \in Workers |-> Idle]
    /\ pc' = "workers"
    /\ UNCHANGED <<x, y, raster, src_nodata, all_unique, iy, ix, ci, percentages,
                   total, out_nc, written, pairVars, dlVars>>

\* lines 45-58 by worker w, for a cell of its choice
Take(w) ==
    /\ pc = "workers"
    /\ worker[w] = Idle
    /\ \E cell \in pending :
          LET data == Valid(WindowData(raster, x, y, cell[1], cell[2]), nodata) IN
          /\ pending' = pending \ {cell}
          /\ taken' = Append(taken, cell)
          /\ worker' = IF Len(data) = 0 \/ Len(all_unique) = 0 THEN worker
                        ELSE [worker EXCEPT ![w] = [cell |-> cell,
                                                    percentages |-> Percentages(data),
                                                    ci |-> 1]]
    /\ UNCHANGED <<sqVars, pairVars, dlVars>>

\* line 60 by worker w, one iteration of "for cat in all_unique"
Put(w) ==
    /\ pc = "workers"
    /\ worker[w] # Idle
    /\ LET cell == worker[w].cell
           cat == all_unique[worker[w].ci]
       IN  /\ cat_arrays' = Store(cat_arrays, cat, cell[1], cell[2],
                                  Get(worker[w].percentages, cat))
    /\ worker' = IF worker[w].ci < Len(all_unique)
                  THEN [worker EXCEPT ![w].ci = @ + 1]
                  ELSE [worker EXCEPT ![w] = Idle]
    /\ UNCHANGED <<x, y, raster, src_nodata, all_unique, nodata, iy, ix, ci,
                   percentages, total, pc, out_nc, written, pending, taken,
                   pairVars, dlVars>>

\* every cell is taken and every worker is through
Join ==
    /\ pc = "workers"
    /\ pending = {}
    /\ \A w \in Workers : worker[w] = Idle
    /\ pc' = "output"
    /\ UNCHANGED <<x, y, raster, src_nodata, all_unique, nodata, cat_arrays, iy, ix,
                   ci, percentages, total, out_nc, written, pairVars, parVars, dlVars>>

NextAnyOrder ==
    \/ OpenShared
    \/ \E w \in Workers : Take(w)
    \/ \E w \in Workers : Put(w)
    \/ Join
    \/ WriteOutput

SpecAnyOrder == InitAnyOrder /\ [][NextAnyOrder]_vars

-----------------------------------------------------------------------------
(* download_inca_data.  A datetime is a number of half days, so that a      *)
(* start_date need not fall on midnight; one day is two of them.            *)

HourlyLimit == 240
OneDay == 2         \* timedelta(days=1)
OK == 200
TooManyRequests == 429
ServerError == 500  \* stands for every status other than 200 and 429

\* current.strftime("%Y%m%dT%H%M"): the date and the time of day
Filename(d) == <<d \div OneDay, d % OneDay>>

\* faulty variant of line 33: end_date included
LoopCondInclusive(cur, end) == cur <= end

\* line 33: while current < end_date
LoopCond(cur, end) == cur < end

SquashIdle ==
    /\ x = <<>> /\ y = <<>> /\ raster = <<>> /\ src_nodata = None
    /\ all_unique = <<>> /\ nodata = None /\ cat_arrays = <<>>
    /\ iy = 0 /\ ix = 0 /\ ci = 0 /\ percentages = <<>> /\ total = 0
    /\ pc = "idle" /\ out_nc = <<>> /\ written = <<>>

\* lines 6-31
InitDownload ==
    /\ start_date \in 0..OneDay
    /\ end_date \in 0..MaxDate
    /\ requests_this_hour \in {0, HourlyLimit - 1, HourlyLimit}
    /\ current = start_date
    /\ status = 0
    /\ files = {}
    /\ dpc = "loop"
    /\ sent = requests_this_hour
    /\ n429 = 0
    /\ log = <<>>
    /\ SquashIdle /\ PairIdle /\ ParIdle

\* line 33: the loop condition fails and the function returns
Return ==
    /\ dpc = "loop"
    /\ ~LoopCond(current, end_date)
    /\ dpc' = "returned"
    /\ UNCHANGED <<start_date, end_date, current, requests_this_hour, status, files,
                   sent, n429, log, sqVars, pairVars, parVars>>

\* lines 33-53: the hourly limit is reached: sleep to the end of the hour
HourlyWait ==
    /\ dpc = "loop"
    /\ LoopCond(current, end_date)
    /\ requests_this_hour >= HourlyLimit
    /\ requests_this_hour' = 0
    /\ sent' = 0
    /\ dpc' = "get"
    /\ UNCHANGED <<start_date, end_date, current, status, files, n429, log,
                   sqVars, pairVars, parVars>>

\* lines 33-55: requests.get for the day of current; the server answers
Send ==
    /\ \/ dpc = "get"
       \/ /\ dpc = "loop"
          /\ LoopCond(current, end_date)
          /\ requests_this_hour < HourlyLimit
    /\ sent' = sent + 1
    /\ \E st \in {OK, TooManyRequests, ServerError} :
          /\ st = TooManyRequests => n429 < Max429
          /\ status' = st
          /\ n429' = IF st = TooManyRequests THEN n429 + 1 ELSE n429
          /\ log' = Append(log, <<current, st>>)
    /\ dpc' = "respond"
    /\ UNCHANGED <<start_date, end_date, current, requests_this_hour, files,
                   sqVars, pairVars, parVars>>

\* variant of lines 68-72 that counts the request answered 429
RetryCounted ==
    /\ dpc = "respond"
    /\ status = TooManyRequests
    /\ requests_this_hour' = requests_this_hour + 1
    /\ dpc' = "loop"
    /\ UNCHANGED <<start_date, end_date, current, status, files,
                   sent, n429, log, sqVars, pairVars, parVars>>

\* lines 68-72: 429: sleep and retry the same day
Retry ==
    /\ dpc = "respond"
    /\ status = TooManyRequests
    /\ dpc' = "loop"
    /\ UNCHANGED <<start_date, end_date, current, requests_this_hour, status, files,
                   sent, n429, log, sqVars, pairVars, parVars>>

\* lines 74-77 and 81-83: 200: write the day's file and go to the next day
Save ==
    /\ dpc = "respond"
    /\ status = OK
    /\ files' = files \cup {Filename(current)}
    /\ requests_this_hour' = requests_this_hour + 1
    /\ current' = current + OneDay
    /\ dpc' = "loop"
    /\ UNCHANGED <<start_date, end_date, status, sent, n429, log,
                   sqVars, pairVars, parVars>>

\* lines 78-83: any other status: report it and go to the next day
GiveUpDay ==
    /\ dpc = "respond"
    /\ status \notin {OK, TooManyRequests}
    /\ requests_this_hour' = requests_this_hour + 1
    /\ current' = current + OneDay
    /\ dpc' = "loop"
    /\ UNCHANGED <<start_date, end_date, status, files, sent, n429, log,
                   sqVars, pairVars, parVars>>

NextDownload == Return \/ HourlyWait \/ Send \/ Retry \/ Save \/ GiveUpDay

SpecDownload == InitDownload /\ [][NextDownload]_vars

\* the function is one sequential thread: every sleep ends and every request
\* is answered, so it takes its next step whenever it has one
SpecDownloadFair == SpecDownload /\ WF_vars(NextDownload)

-----------------------------------------------------------------------------
(* Properties of squash_land_use *)

Finished == pc = "done"

\* the pixels of cell (jy, jx)'s window, and those of them that are not nodata
PixelsOf(jy, jx) == WindowData(raster, x, y, jy, jx)
ValidCount(jy, jx) ==
    LET px == PixelsOf(jy, jx) IN Cardinality({k \in DOMAIN px : px[k] # nodata})
CountOf(jy, jx, v) ==
    LET px == PixelsOf(jy, jx) IN Cardinality({k \in DOMAIN px : px[k] = v})
Result == out_nc

\* C1: when the function has written its output, a cell whose window holds no valid pixel
\* (every pixel is nodata, or the window is empty) has NaN, not 0.0, in the
\* array of every category of all_unique, and so has the file written.
C1_NoValidPixelIsNaN ==
    Finished =>
        \A cell \in Cells(x, y) : \A cat \in Cats(all_unique) :
            ValidCount(cell[1], cell[2]) = 0 =>
                /\ Result[cat][cell] = NaN
                /\ Result[cat][cell] # Zero

C1_Witness ==
    /\ pc = "done"
    /\ all_unique # <<>>
    /\ \E cell \in Cells(x, y) :
          /\ Len(PixelsOf(cell[1], cell[2])) > 0
          /\ ValidCount(cell[1], cell[2]) = 0
    /\ \E cell \in Cells(x, y) : Len(PixelsOf(cell[1], cell[2])) = 0
    /\ \E cell \in Cells(x, y) : ValidCount(cell[1], cell[2]) > 0

\* C2: when the function has written its output, a cell whose window is not empty and holds
\* only pixels of one value v, v not nodata, has exactly 100 for v when v is
\* in all_unique and exactly 0.0 for every other category of all_unique.
SingleValue(jy, jx, v) ==
    /\ v # nodata
    /\ LET px == PixelsOf(jy, jx) IN Len(px) > 0 /\ \A k \in DOMAIN px : px[k] = v

C2_SingleCategoryIs100 ==
    Finished =>
        \A cell \in Cells(x, y) : \A v \in PixelValues :
            SingleValue(cell[1], cell[2], v) =>
                \A cat \in Cats(all_unique) :
                    Result[cat][cell] = IF cat = v THEN Hundred ELSE Zero

C2_Witness ==
    /\ pc = "done"
    /\ \E cell \in Cells(x, y) : \E v \in Cats(all_unique) :
          /\ SingleValue(cell[1], cell[2], v)
          /\ Len(PixelsOf(cell[1], cell[2])) > 1
          /\ Cats(all_unique) # {v}
          /\ out_nc[v][cell] = Hundred

\* C3: while a cell with at least one valid pixel is being assigned, the
\* percentages computed for all the values observed in its window, tracked
\* or not, sum to 100: the denominator is the number of valid pixels, and
\* the observed values are exactly the valid pixel values.
C3_PercentagesSumTo100 ==
    pc = "assign" =>
        /\ ValidCount(iy, ix) > 0
        /\ DOMAIN percentages =
              LET px == PixelsOf(iy, ix) IN {px[k] : k \in DOMAIN px} \ {nodata}
        /\ RatSum(percentages, DOMAIN percentages) = Hundred
        /\ total = ValidCount(iy, ix)
        /\ IntSum([v \in DOMAIN percentages |-> CountOf(iy, ix, v)],
                  DOMAIN percentages) = total

C3_Witness ==
    /\ pc = "assign"
    /\ Cardinality(DOMAIN percentages) > 1
    /\ DOMAIN percentages \ Cats(all_unique) # {}
    /\ ValidCount(iy, ix) < Len(PixelsOf(iy, ix))
    /\ \E v \in DOMAIN percentages : percentages[v][2] = 3

\* C4: when the function has written its output, in a cell with at least one valid pixel every
\* category c of all_unique has 100 * count(c) / n, n the number of pixels of
\* the window that are not nodata, whatever their value: 0.0 for a category
\* that is absent, and nodata pixels are not counted in n.
C4_PercentageOverAllValid ==
    Finished =>
        \A cell \in Cells(x, y) :
            LET n == ValidCount(cell[1], cell[2]) IN
            n > 0 =>
                \A cat \in Cats(all_unique) :
                    LET count == IF cat = nodata THEN 0
                                 ELSE CountOf(cell[1], cell[2], cat)
                    IN  /\ Result[cat][cell] = Frac(100 * count, n)
                        /\ count = 0 => Result[cat][cell] = Zero

C4_Witness ==
    /\ pc = "done"
    /\ \E cell \in Cells(x, y) : \E cat \in Cats(all_unique) :
          \E other \in PixelValues \ (Cats(all_unique) \cup {nodata}) :
              /\ CountOf(cell[1], cell[2], cat) > 0
              /\ CountOf(cell[1], cell[2], other) > 0
              /\ CountOf(cell[1], cell[2], nodata) > 0
              /\ \E absent \in Cats(all_unique) :
                    CountOf(cell[1], cell[2], absent) = 0

\* what cell (jy, jx) is to hold for cat, from the pixels of its own window
Expected(cat, jy, jx) ==
    LET px == PixelsOf(jy, jx)
        n == Cardinality({k \in DOMAIN px : px[k] # nodata})
        count == Cardinality({k \in DOMAIN px : px[k] = cat /\ px[k] # nodata})
    IN  IF n = 0 THEN NaN ELSE Frac(100 * count, n)

\* C6 (as claimed): with an empty or non-monotonic x or y axis the function
\* fails with InvalidGridError and produces no result grid.
C6_InvalidGridProducesNoResult == InvalidGrid => pc # "done"

\* C6 (amended): the axes are not validated.  With an empty or non-monotonic
\* x or y axis the function raises nothing: until its output is written it
\* is at a cell of the grid (and a category of all_unique), and the output has one array of shape (len(y), len(x))
\* per category, each cell holding what its own window gives (no cell at all
\* when an axis is empty).
C6_InvalidGridIsProcessed ==
    InvalidGrid =>
        /\ pc \in {"start", "output", "done"}
              \/ (pc = "cell" /\ <<iy, ix>> \in Cells(x, y))
              \/ (pc = "assign" /\ <<iy, ix>> \in Cells(x, y)
                    /\ ci \in 1..Len(all_unique))
        /\ pc = "done" =>
              /\ DOMAIN out_nc = Cats(all_unique)
              /\ \A cat \in Cats(all_unique) :
                    /\ DOMAIN out_nc[cat] = Cells(x, y)
                    /\ \A cell \in Cells(x, y) :
                          out_nc[cat][cell] = Expected(cat, cell[1], cell[2])

C6_Witness ==
    /\ pc = "done"
    /\ all_unique # <<>>
    /\ Len(x) = 3 /\ x[1] < x[2] /\ x[2] > x[3]
    /\ \E c1 \in Cells(x, y) : \E c2 \in Cells(x, y) : \E cat \in Cats(all_unique) :
          /\ ~IsNaN(out_nc[cat][c1]) /\ out_nc[cat][c1] # Zero
          /\ IsNaN(out_nc[cat][c2])

\* C10: at every point of the run every entry of every category array (and
\* of the output) is NaN or a percentage between 0 and 100, and no slot is
\* assigned twice: the slots that hold a percentage are exactly those that
\* were assigned once.  (all_unique lists each category once.)
InRange(q) == IsNaN(q) \/ (RatLeq(Zero, q) /\ RatLeq(q, Hundred) /\ q[2] > 0)

C10_EntriesInRangeWrittenOnce ==
    LET slots == {written[k] : k \in 1..Len(written)} IN
    /\ \A cat \in DOMAIN cat_arrays : \A cell \in DOMAIN cat_arrays[cat] :
          /\ InRange(cat_arrays[cat][cell])
          /\ ~IsNaN(cat_arrays[cat][cell]) <=> <<cat, cell[1], cell[2]>> \in slots
    /\ \A cat \in DOMAIN out_nc : \A cell \in DOMAIN out_nc[cat] :
          InRange(out_nc[cat][cell])
    /\ Cardinality(slots) = Len(written)

C10_Witness ==
    /\ pc = "assign" /\ ci = 2
    /\ \E cat \in DOMAIN cat_arrays : \E c1 \in Cells(x, y) : \E c2 \in Cells(x, y) :
          /\ IsNaN(cat_arrays[cat][c1])
          /\ ~IsNaN(cat_arrays[cat][c2])
          /\ cat_arrays[cat][c2] \notin {Zero, Hundred}
          /\ <<c2[1], c2[2]>> # <<iy, ix>>

\* C5: the same grid and raster aggregated with all_unique = S and then with
\* S less one category c give the same array, cell by cell, for every
\* category of S other than c; only c's array is gone.
C5_OmissionLeavesOthersUnchanged ==
    (run = 2 /\ pc = "done") =>
        /\ DOMAIN out_nc = DOMAIN first_out \ {removed}
        /\ \A cat \in DOMAIN out_nc : out_nc[cat] = first_out[cat]

C5_Witness ==
    /\ run = 2 /\ pc = "done"
    /\ \E cat \in DOMAIN out_nc : \E cell \in Cells(x, y) :
          /\ out_nc[cat][cell] \notin {NaN, Zero, Hundred}
          /\ first_out[removed][cell] \notin {NaN, Zero, Hundred}
          /\ CountOf(cell[1], cell[2], nodata) > 0

\* C9: the cells have no ordering dependency.  Whatever the order in which
\* the workers take the cells and however their assignments interleave,
\* the output is the one of the sequential row-by-row loops; and a worker
\* only ever holds a cell no other worker holds.
C9_AnyOrderGivesSequentialResult ==
    /\ pc = "done" => out_nc = SequentialResult
    /\ pc = "workers" =>
          \A v \in Workers : \A w \in Workers :
              (v # w /\ worker[v] # Idle) => worker[v].cell # worker[w].cell

\* the sequential loops of Spec compute SequentialResult
SequentialLoopsGiveSequentialResult == pc = "done" => out_nc = SequentialResult

C9_Witness ==
    /\ pc = "done"
    /\ Len(taken) = 4
    /\ taken[1] = <<Len(y), Len(x)>> /\ taken[4] = <<1, 1>>
    /\ out_nc[1][<<1, 1>>] # out_nc[1][<<Len(y), Len(x)>>]
    /\ ~IsNaN(out_nc[1][<<1, 1>>])

-----------------------------------------------------------------------------
(* Properties of download_inca_data *)

\* the days of the range: start_date, start_date + 1 day, ... before end_date
Days == {d \in start_date..(end_date - 1) : (d - start_date) % OneDay = 0}

\* C7: between two hourly resets (or from the start to the first reset, the
\* initial requests_this_hour counted) at most 240 requests are sent,
\* whatever the server answers.
C7_AtMost240RequestsPerHour == sent <= HourlyLimit

Answered(d, st) == \E k \in 1..Len(log) : log[k] = <<d, st>>
FinalAnswers(d) ==
    {k \in 1..Len(log) : log[k][1] = d /\ log[k][2] # TooManyRequests}

Got429 == dpc = "respond" /\ status = TooManyRequests
GotOther == dpc = "respond" /\ status # TooManyRequests

RequestsFollowResponses ==
    /\ \A k \in 1..(Len(log) - 1) :
          log[k + 1][1] = IF log[k][2] = TooManyRequests THEN log[k][1]
                          ELSE log[k][1] + OneDay
    /\ (Len(log) > 0 /\ log[Len(log)][2] = TooManyRequests) => dpc # "returned"

C11_RetryKeepsDayOthersAdvance ==
    /\ [][Got429 => /\ current' = current
                    /\ requests_this_hour' = requests_this_hour
                    /\ dpc' = "loop"]_vars
    /\ [][GotOther => /\ current' = current + OneDay
                      /\ requests_this_hour' = requests_this_hour + 1]_vars
    /\ []RequestsFollowResponses
    /\ <>(dpc = "returned" /\ current >= end_date)

C11_Witness ==
    /\ dpc = "returned"
    /\ current >= end_date
    /\ Len(log) = 4
    /\ log[1] = <<start_date, TooManyRequests>>
    /\ log[2] = <<start_date, ServerError>>
    /\ log[3] = <<start_date + OneDay, TooManyRequests>>
    /\ log[4] = <<start_date + OneDay, OK>>
    /\ requests_this_hour = 2

====
